---- MODULE Spec2Model ----
(***************************************************************************)
(* Temporary video-access tokens of the movie site backend                 *)
(* (src/src/index.tsx): the token codec generateTempToken/verifyTempToken, *)
(* the issuance endpoint POST /api/telegram/get-file-url and the stream    *)
(* proxy GET /api/telegram/stream/:token.                                  *)
(*                                                                         *)
(* Strings are sequences of character codes (ASCII / Latin-1), so that     *)
(* btoa, atob, split and parseInt are computed the way the runtime         *)
(* computes them.  Codes used below: ':' 58, '=' 61, '+' 43, '/' 47,       *)
(* '-' 45, '_' 95, '0'..'9' 48..57, 'A'..'Z' 65..90, 'a'..'z' 97..122.     *)
(***************************************************************************)
EXTENDS Integers, Sequences, FiniteSets, TLC

VARIABLES codec, siteConfig, botToken, now, served, issue, stream, analytics,
          issued, accesses, arrived, track, batch, viewCount, blogReqs, cron

\* the state of the tracking endpoints, and the state next to the token
\* endpoints and the codec
pageVars == <<track, batch, viewCount, blogReqs, cron>>
sideVars == <<accesses, arrived, pageVars>>

\* the state of the token endpoints but for the request count and the
\* analytics table
tokenVars ==
  <<codec, siteConfig, botToken, now, issue, stream, issued, accesses, arrived>>

vars ==
  <<codec, siteConfig, botToken, now, served, issue, stream, analytics, issued,
    sideVars>>

(***************************************************************************)
(* Bounds of the model.                                                    *)
(***************************************************************************)
\* expiry instants tried by the codec specification: 1, 10, ..., 10^(MaxExpiryDigits-1)
MaxExpiryDigits == 3
\* the endpoints serve at most this many requests in one behaviour
MaxRequests == 2
\* Date.now() when the first request arrives
StartTime == 1000
\* one token is presented at most this many times
MaxAccesses == 6
\* and at most this many of its presentations are in flight at once
MaxInFlight == 2
\* the number of events of the long batch that is tried
LongBatch == 6

(***************************************************************************)
(* JavaScript values.                                                      *)
(***************************************************************************)
\* a JS number: an integer or NaN
NaN == [nan |-> TRUE, val |-> 0]
Num(n) == [nan |-> FALSE, val |-> n]

\* a > b on JS numbers, a an integer: every comparison with NaN is false
GreaterThan(a, b) == IF b.nan THEN FALSE ELSE a > b.val

\* a destructured array element: undefined when the array is too short
Field(parts, i) ==
  IF i <= Len(parts) THEN [undef |-> FALSE, str |-> parts[i]]
  ELSE [undef |-> TRUE, str |-> <<>>]

RECURSIVE Repeat(_, _)
Repeat(c, n) == IF n <= 0 THEN <<>> ELSE <<c>> \o Repeat(c, n - 1)

\* String.prototype.replace(/c/g, d) for single characters
ReplaceAll(s, c, d) == [i \in 1..Len(s) |-> IF s[i] = c THEN d ELSE s[i]]

\* `${n}` for an integer n
RECURSIVE DigitsOf(_)
DigitsOf(n) == IF n < 10 THEN <<48 + n>> ELSE DigitsOf(n \div 10) \o <<48 + (n % 10)>>

NumToStr(n) == IF n < 0 THEN <<45>> \o DigitsOf(0 - n) ELSE DigitsOf(n)

\* String.prototype.split(sep) for a one-character separator
RECURSIVE split(_, _)
split(s, sep) ==
  IF \A i \in 1..Len(s) : s[i] # sep THEN <<s>>
  ELSE LET k == CHOOSE i \in 1..Len(s) : s[i] = sep /\ \A j \in 1..(i - 1) : s[j] # sep
       IN  <<SubSeq(s, 1, k - 1)>> \o split(SubSeq(s, k + 1, Len(s)), sep)

(***************************************************************************)
(* parseInt(string) without a radix argument.                              *)
(***************************************************************************)
IsWhiteSpace(c) == c \in {9, 10, 11, 12, 13, 32, 160}

\* the value of character c as a digit of the radix, -1 when it is none
DigitValue(c, radix) ==
  LET v == IF c >= 48 /\ c <= 57 THEN c - 48
           ELSE IF c >= 97 /\ c <= 122 THEN c - 87
           ELSE IF c >= 65 /\ c <= 90 THEN c - 55
           ELSE 0 - 1
  IN  IF v >= 0 /\ v < radix THEN v ELSE 0 - 1

RECURSIVE SkipWhiteSpace(_)
SkipWhiteSpace(s) ==
  IF Len(s) > 0 /\ IsWhiteSpace(s[1]) THEN SkipWhiteSpace(Tail(s)) ELSE s

\* the longest prefix of s made of digits of the radix, as a number; acc is
\* the value read so far and seen tells whether a digit was read
RECURSIVE ReadDigits(_, _, _, _)
ReadDigits(s, radix, acc, seen) ==
  IF Len(s) > 0 /\ DigitValue(s[1], radix) >= 0
  THEN ReadDigits(Tail(s), radix, acc * radix + DigitValue(s[1], radix), TRUE)
  ELSE IF seen THEN Num(acc) ELSE NaN

parseInt(v) ==
  IF v.undef THEN NaN   \* ToString(undefined) = "undefined" has no digit
  ELSE
    LET t == SkipWhiteSpace(v.str)
        neg == Len(t) > 0 /\ t[1] = 45
        u == IF Len(t) > 0 /\ t[1] \in {43, 45} THEN Tail(t) ELSE t
        hex == Len(u) >= 2 /\ u[1] = 48 /\ u[2] \in {120, 88}
        r == IF hex THEN ReadDigits(SubSeq(u, 3, Len(u)), 16, 0, FALSE)
             ELSE ReadDigits(u, 10, 0, FALSE)
    IN  IF r.nan THEN NaN ELSE IF neg THEN Num(0 - r.val) ELSE r

(***************************************************************************)
(* btoa / atob (WHATWG forgiving-base64).                                  *)
(***************************************************************************)
B64Char(i) ==
  IF i < 26 THEN 65 + i
  ELSE IF i < 52 THEN 97 + (i - 26)
  ELSE IF i < 62 THEN 48 + (i - 52)
  ELSE IF i = 62 THEN 43 ELSE 47

B64Index(c) ==
  IF c >= 65 /\ c <= 90 THEN c - 65
  ELSE IF c >= 97 /\ c <= 122 THEN c - 71
  ELSE IF c >= 48 /\ c <= 57 THEN c + 4
  ELSE IF c = 43 THEN 62
  ELSE IF c = 47 THEN 63
  ELSE 0 - 1

RECURSIVE B64Encode(_)
B64Encode(s) ==
  IF Len(s) = 0 THEN <<>>
  ELSE IF Len(s) = 1 THEN
    <<B64Char(s[1] \div 4), B64Char((s[1] % 4) * 16), 61, 61>>
  ELSE IF Len(s) = 2 THEN
    <<B64Char(s[1] \div 4), B64Char((s[1] % 4) * 16 + (s[2] \div 16)),
      B64Char((s[2] % 16) * 4), 61>>
  ELSE
    <<B64Char(s[1] \div 4), B64Char((s[1] % 4) * 16 + (s[2] \div 16)),
      B64Char((s[2] % 16) * 4 + (s[3] \div 64)), B64Char(s[3] % 64)>>
    \o B64Encode(SubSeq(s, 4, Len(s)))

\* btoa throws InvalidCharacterError on a character outside Latin-1
btoa(s) ==
  IF \E i \in 1..Len(s) : s[i] > 255 THEN [threw |-> TRUE, str |-> <<>>]
  ELSE [threw |-> FALSE, str |-> B64Encode(s)]

RECURSIVE B64Decode(_)
B64Decode(s) ==
  IF Len(s) < 2 THEN <<>>
  ELSE
    LET a == B64Index(s[1])
        b == B64Index(s[2])
        b1 == a * 4 + (b \div 16)
    IN  IF Len(s) = 2 THEN <<b1>>
        ELSE LET c == B64Index(s[3])
                 b2 == (b % 16) * 16 + (c \div 4)
             IN  IF Len(s) = 3 THEN <<b1, b2>>
                 ELSE <<b1, b2, (c % 4) * 64 + B64Index(s[4])>>
                      \o B64Decode(SubSeq(s, 5, Len(s)))

\* a variant of atob that skips what it cannot decode instead of throwing
atobLenient(s) ==
  [threw |-> FALSE, data |-> B64Decode(SelectSeq(s, LAMBDA c : B64Index(c) >= 0))]

atob(s) ==
  LET t == SelectSeq(s, LAMBDA c : c \notin {9, 10, 12, 13, 32})
      n == Len(t)
      u == IF n > 0 /\ n % 4 = 0
           THEN IF t[n] = 61 /\ t[n - 1] = 61 THEN SubSeq(t, 1, n - 2)
                ELSE IF t[n] = 61 THEN SubSeq(t, 1, n - 1)
                ELSE t
           ELSE t
  IN  IF Len(u) % 4 = 1 \/ \E i \in 1..Len(u) : B64Index(u[i]) < 0
      THEN [threw |-> TRUE, data |-> <<>>]
      ELSE [threw |-> FALSE, data |-> B64Decode(u)]

(***************************************************************************)
(* The token codec.                                                        *)
(***************************************************************************)
\* a variant of UrlSafe that maps '+' and '/' and keeps the '=' padding
UrlSafeKeepPadding(b64) ==
  [i \in 1..Len(b64) |->
     IF b64[i] = 43 THEN 45 ELSE IF b64[i] = 47 THEN 95 ELSE b64[i]]

\* the wire form of a base64 string: '+' -> '-', '/' -> '_', '=' dropped
UrlSafe(b64) ==
  LET kept == SelectSeq(b64, LAMBDA c : c # 61)
  IN  [i \in 1..Len(kept) |->
         IF kept[i] = 43 THEN 45 ELSE IF kept[i] = 47 THEN 95 ELSE kept[i]]

generateTempToken(fileId, userIP, expiresAt) ==
  LET data == fileId \o <<58>> \o userIP \o <<58>> \o NumToStr(expiresAt)
      enc == btoa(data)
  IN  IF enc.threw THEN [threw |-> TRUE, token |-> <<>>]
      ELSE [threw |-> FALSE, token |-> UrlSafe(enc.str)]

\* the result null of verifyTempToken
Null == [isNull |-> TRUE, file_id |-> <<>>, expires_at |-> NaN]

\* a variant of IsExpired that also rejects at the expiry instant itself
IsExpiredInclusive(time, expires) == IF expires.nan THEN FALSE ELSE time >= expires.val

\* Date.now() > expires
IsExpired(time, expires) == GreaterThan(time, expires)

\* a variant of verifyTempToken whose identity check is in force: the return
\* null of the tokenIP !== userIP branch is not commented out
verifyTempTokenStrict(token, userIP, time) ==
  LET padding == Repeat(61, (4 - (Len(token) % 4)) % 4)
      base64 == ReplaceAll(ReplaceAll(token, 45, 43), 95, 47) \o padding
      dec == atob(base64)
      parts == split(dec.data, 58)
      fileId == parts[1]
      tokenIP == Field(parts, 2)
      expiresAt == Field(parts, 3)
      expires == parseInt(expiresAt)
  IN  IF dec.threw THEN Null
      ELSE IF IsExpired(time, expires) THEN Null
      ELSE IF tokenIP.undef \/ tokenIP.str # userIP THEN Null
      ELSE [isNull |-> FALSE, file_id |-> fileId, expires_at |-> expires]

\* verifyTempToken(token, userIP) called when Date.now() = time
verifyTempToken(token, userIP, time) ==
  LET padding == Repeat(61, (4 - (Len(token) % 4)) % 4)
      base64 == ReplaceAll(ReplaceAll(token, 45, 43), 95, 47) \o padding
      dec == atob(base64)
      parts == split(dec.data, 58)
      fileId == parts[1]
      tokenIP == Field(parts, 2)
      expiresAt == Field(parts, 3)
      expires == parseInt(expiresAt)
  IN  IF dec.threw THEN Null               \* catch (error) { return null }
      ELSE IF IsExpired(time, expires) THEN Null
      ELSE \* tokenIP !== userIP: the branch is empty, its return is commented out
           [isNull |-> FALSE, file_id |-> fileId, expires_at |-> expires]

(***************************************************************************)
(* Inputs: file identifiers, caller identities, wire strings.              *)
(***************************************************************************)
\* "A", "B" and ">>>???" (whose base64 form holds '+' and '/')
FileIds == {<<65>>, <<66>>, <<62, 62, 62, 63, 63, 63>>}

\* "1.2" (an IPv4-shaped address) and "unknown": identities without ':'
PlainIdentities == {<<49, 46, 50>>, <<117, 110, 107, 110, 111, 119, 110>>}

\* "::1" and "2:5::1": IPv6 addresses
V6Identities == {<<58, 58, 49>>, <<50, 58, 53, 58, 58, 49>>}

Identities == PlainIdentities \cup V6Identities

RECURSIVE Pow10(_)
Pow10(k) == IF k = 0 THEN 1 ELSE 10 * Pow10(k - 1)

Expiries == {Pow10(k) : k \in 0..(MaxExpiryDigits - 1)}

\* the instants around every expiry
CodecTimes == UNION {{e - 1, e, e + 1} : e \in Expiries}

\* the token whose decoded content is the given string
WireOf(data) == UrlSafe(B64Encode(data))

\* wire strings that no issuance produced
RawTokens ==
  { WireOf(<<65>>),                                   \* "A"
    WireOf(<<65, 58, 49>>),                           \* "A:1"
    WireOf(<<65, 58, 49, 58>>),                       \* "A:1:"
    WireOf(<<65, 58, 49, 58, 120>>),                  \* "A:1:x"
    WireOf(<<65, 58, 49, 58, 57, 120>>),              \* "A:1:9x"
    WireOf(<<65, 58, 49, 58, 57, 58, 52>>),           \* "A:1:9:4"
    WireOf(<<66, 58, 49, 58, 57>>),                   \* "B:1:9"
    WireOf(<<66, 58, 49, 58, 57, 57, 57, 57, 57, 57, 57, 57>>),  \* "B:1:99999999"
    <<81, 33, 33, 33>>,                               \* "Q!!!"
    <<81, 84, 37, 120>>,                              \* "QT%x"
    <<61, 81, 81>>,                                   \* "=QQ"
    <<81, 81, 81, 81, 81>>,                           \* "QQQQQ": length 1 mod 4
    <<81, 32, 81>> }                                  \* "Q Q"

(***************************************************************************)
(* The content store (table movies) and the request headers.               *)
(***************************************************************************)
\* rows of movies: slug "movie-x" is published, "movie-y" is a draft, and no
\* row has the slug "movie-z"
Movies ==
  { [slug |-> "movie-x", id |-> 1, published |-> TRUE, telegram_file_id |-> <<65>>],
    [slug |-> "movie-y", id |-> 2, published |-> FALSE, telegram_file_id |-> <<66>>] }

Slugs == {"movie-x", "movie-y", "movie-z"}

\* the file_id of a request body: "A" or "B"
BodyFileIds == {<<65>>, <<66>>}

\* a variant of FindPublished without the condition on published
FindBySlug(slug) == {m \in Movies : m.slug = slug}

\* SELECT * FROM movies WHERE slug = ? AND published = TRUE  (.first())
FindPublished(slug) == {m \in Movies : m.slug = slug /\ m.published}

\* a request header: absent, or present with a value
NoHeader == [present |-> FALSE, value |-> <<>>]
Header(v) == [present |-> TRUE, value |-> v]

\* c.req.header('CF-Connecting-IP') || c.req.header('X-Forwarded-For') || 'unknown'
ResolveIP(cf, xff) ==
  IF cf.present /\ Len(cf.value) > 0 THEN cf.value
  ELSE IF xff.present /\ Len(xff.value) > 0 THEN xff.value
  ELSE <<117, 110, 107, 110, 111, 119, 110>>

CfHeaders == {NoHeader, Header(<<58, 58, 49>>)}
XffHeaders == {NoHeader, Header(<<49, 46, 50>>)}

\* new Date(Date.now() + 3600000)
TokenLifetimeMs == 3600000

\* site_config row ('video_token_expiry', '3600'): the configured token
\* lifetime, in seconds
VideoTokenExpiryDefault == 3600

\* the values an administrator stores under video_token_expiry
VideoTokenExpiryValues == {VideoTokenExpiryDefault, 2 * VideoTokenExpiryDefault}

\* the instants of the endpoint specification: the start, one token lifetime
\* later, and one millisecond after that
Instants ==
  {StartTime, StartTime + TokenLifetimeMs, StartTime + TokenLifetimeMs + 1}

\* the file_path of a getFile response: which request received it, and for
\* which file identifier
NoPath == [request |-> "none", file_id |-> <<>>]
FilePath(request, fileId) == [request |-> request, file_id |-> fileId]

IssueIdle ==
  [pc |-> "idle", file_id |-> <<>>, movie_slug |-> "", cf |-> NoHeader,
   xff |-> NoHeader, userIP |-> <<>>, movie_id |-> 0, dbLookups |-> 0,
   dbAnswer |-> "none", getFileCalls |-> 0,
   getFileArg |-> <<>>, getFileAnswer |-> "none", insertAnswer |-> "none",
   minted |-> FALSE, mintedAt |-> 0, token |-> <<>>, expiresAt |-> 0,
   status |-> 0,
   video_url |-> <<>>, direct_url |-> FALSE, expires_at |-> 0, rows |-> 0]

StreamIdle ==
  [pc |-> "idle", token |-> <<>>, tokenData |-> Null,
   verifiedAt |-> 0, getFileCalls |-> 0, getFileArg |-> <<>>,
   getFileAnswer |-> "none", filePath |-> NoPath, fetchCalls |-> 0,
   fetchArg |-> NoPath, fetchAnswer |-> "none", upstreamLength |-> "none",
   status |-> 0, contentLength |-> "none"]


(***************************************************************************)
(* The codec on its own: a triple is encoded, or a wire string is forged,  *)
(* and the token is then verified at some instant by some caller.          *)
(***************************************************************************)
CodecIdle ==
  [pc |-> "idle", fileId |-> <<>>, userIP |-> <<>>, expiresAt |-> 0,
   minted |-> FALSE, token |-> <<>>, time |-> 0, presenter |-> <<>>,
   result |-> Null]

\* no answer of the file server is waiting for its handler
NoAnswer == [answer |-> "none", length |-> "none"]

\* POST /api/analytics: the request in progress
TrackIdle == [pc |-> "idle", event_type |-> "", status |-> 0, rows |-> 0]

\* POST /api/analytics/batch: the request in progress, with the fields of its
\* response
BatchIdle ==
  [pc |-> "idle", events |-> <<>>, i |-> 0, successCount |-> 0,
   errors |-> <<>>, rows |-> 0, status |-> 0, processed |-> 0,
   successful |-> 0, failed |-> 0, reported |-> <<>>]

\* rows of blog_posts: "post-a" is published, "post-b" is a draft, and no row
\* has the slug "post-c"
BlogPosts ==
  { [slug |-> "post-a", id |-> 1, published |-> TRUE],
    [slug |-> "post-b", id |-> 2, published |-> FALSE] }

BlogSlugs == {"post-a", "post-b", "post-c"}

\* the requests to GET /api/blog/:slug that are in progress at once
BlogSlots == 1..MaxInFlight

\* GET /api/blog/:slug: a request in progress, with the id and the
\* view_count of the row it selected
BlogIdle == [pc |-> "idle", slug |-> "", id |-> 0, view_count |-> 0, status |-> 0]

\* GET /api/cron/generate-content: the run in progress, with the ids of the
\* selected movies, the movies whose blog post this run inserted, the
\* content_jobs rows this run inserted, and the fields of its response
CronIdle ==
  [pc |-> "idle", header |-> FALSE, movies |-> <<>>, i |-> 0,
   successCount |-> 0, errors |-> <<>>, posts |-> {}, jobs |-> <<>>,
   status |-> 0, generated_count |-> 0, error_count |-> 0]

\* nothing has happened next to the token endpoints
SideIdle ==
  /\ accesses = <<>>
  /\ arrived = NoAnswer
  /\ track = TrackIdle
  /\ batch = BatchIdle
  /\ viewCount = [id \in {post.id : post \in BlogPosts} |-> 0]
  /\ blogReqs = [k \in BlogSlots |-> BlogIdle]
  /\ cron = CronIdle

EndpointsIdle ==
  /\ SideIdle
  /\ siteConfig = VideoTokenExpiryDefault
  /\ botToken = FALSE
  /\ now = StartTime
  /\ served = 0
  /\ issue = IssueIdle
  /\ stream = StreamIdle
  /\ analytics = <<>>
  /\ issued = {}

InitCodec ==
  /\ \E f \in FileIds, ip \in Identities, e \in Expiries :
       codec = [CodecIdle EXCEPT !.pc = "start", !.fileId = f, !.userIP = ip,
                                 !.expiresAt = e]
  /\ EndpointsIdle

CodecGenerate ==
  /\ codec.pc = "start"
  /\ LET g == generateTempToken(codec.fileId, codec.userIP, codec.expiresAt)
     IN  /\ ~g.threw
         /\ codec' = [codec EXCEPT !.pc = "encoded", !.minted = TRUE, !.token = g.token]
  /\ UNCHANGED <<sideVars, siteConfig, botToken, now, served, issue, stream, analytics, issued>>

\* a client writes the wire string itself: any string, or the encoding of
\* the triple at hand, computed without generateTempToken
CodecForge ==
  /\ codec.pc = "start"
  /\ \/ \E t \in RawTokens :
          codec' = [CodecIdle EXCEPT !.pc = "encoded", !.token = t]
     \/ codec' = [codec EXCEPT !.pc = "encoded",
                     !.token = WireOf(codec.fileId \o <<58>> \o codec.userIP
                                 \o <<58>> \o NumToStr(codec.expiresAt))]
  /\ UNCHANGED <<sideVars, siteConfig, botToken, now, served, issue, stream, analytics, issued>>

CodecVerify ==
  /\ codec.pc = "encoded"
  /\ \E t \in CodecTimes, ip \in Identities :
       codec' = [codec EXCEPT !.pc = "verified", !.time = t, !.presenter = ip,
                              !.result = verifyTempToken(codec.token, ip, t)]
  /\ UNCHANGED <<sideVars, siteConfig, botToken, now, served, issue, stream, analytics, issued>>

NextCodec == CodecGenerate \/ CodecForge \/ CodecVerify

(***************************************************************************)
(* One token presented again and again: every presentation is a stream     *)
(* request that verifies the token when it arrives and stays in flight     *)
(* while the video is relayed.                                             *)
(***************************************************************************)
\* video_access_tokens.max_uses INTEGER DEFAULT 5: a table the handlers
\* neither write nor read
MaxUses == 5

\* Date.now() when a token of the given expiry is presented: just before the
\* expiry, at the expiry, just after it
AccessTimes(expiresAt) == {expiresAt - 1, expiresAt, expiresAt + 1}

\* a stream request arrives with the token, no earlier than the one before,
\* and verifyTempToken decides on it
AccessStart ==
  /\ codec.pc \in {"encoded", "verified"}
  /\ Len(accesses) < MaxAccesses
  /\ Cardinality({i \in 1..Len(accesses) : ~accesses[i].done}) < MaxInFlight
  /\ \E t \in AccessTimes(codec.expiresAt), ip \in PlainIdentities :
       /\ t >= codec.time
       /\ LET result == verifyTempToken(codec.token, ip, t)
          IN  /\ codec' = [codec EXCEPT !.pc = "verified", !.time = t,
                                        !.result = result]
              /\ accesses' = Append(accesses,
                    [accepted |-> ~result.isNull, done |-> FALSE])
  /\ UNCHANGED <<siteConfig, botToken, now, served, issue, stream, analytics,
                 issued, arrived, pageVars>>

\* a stream request that is in flight gets its response
AccessFinish ==
  /\ \E i \in 1..Len(accesses) :
       /\ ~accesses[i].done
       /\ accesses' = [accesses EXCEPT ![i].done = TRUE]
  /\ UNCHANGED <<codec, siteConfig, botToken, now, served, issue, stream,
                 analytics, issued, arrived, pageVars>>

NextAccess == CodecGenerate \/ AccessStart \/ AccessFinish

SpecAccess == InitCodec /\ [][NextAccess]_vars

SpecCodec == InitCodec /\ [][NextCodec]_vars

Init ==
  /\ codec = CodecIdle
  /\ SideIdle
  /\ siteConfig = VideoTokenExpiryDefault
  /\ botToken \in BOOLEAN
  /\ now = StartTime
  /\ served = 0
  /\ issue = IssueIdle
  /\ stream = StreamIdle
  /\ analytics = <<>>
  /\ issued = {}

\* time passes between two steps of the handlers
Tick ==
  /\ \E t \in Instants : t > now /\ now' = t
  /\ UNCHANGED <<sideVars, codec, siteConfig, botToken, served, issue, stream, analytics, issued>>

(***************************************************************************)
(* POST /api/telegram/get-file-url                                         *)
(***************************************************************************)
\* await c.req.json() rejects: the error leaves the handler, outside its try
IssueMalformedBody ==
  /\ issue.pc \in {"idle", "done"}
  /\ served < MaxRequests
  /\ served' = served + 1
  /\ issue' = [IssueIdle EXCEPT !.pc = "done", !.status = 500]
  /\ UNCHANGED <<sideVars, codec, siteConfig, botToken, now, stream, analytics, issued>>

\* a variant of IssueGate that never looks at the credential
IssueGateUnchecked(r, configured) ==
  [r EXCEPT !.pc = "db", !.dbLookups = @ + 1]

\* the request r once its body is parsed: 500 without the credential, else
\* the movie query is sent
IssueGate(r, configured) ==
  IF ~configured THEN [r EXCEPT !.pc = "done", !.status = 500]
  ELSE [r EXCEPT !.pc = "db", !.dbLookups = @ + 1]

\* the body is parsed, the caller identity resolved, the credential checked
\* and the movie query sent
IssueStart ==
  /\ issue.pc \in {"idle", "done"}
  /\ served < MaxRequests
  /\ served' = served + 1
  /\ \E f \in BodyFileIds, slug \in Slugs, cf \in CfHeaders, xff \in XffHeaders :
       LET r == [IssueIdle EXCEPT !.file_id = f, !.movie_slug = slug,
                                  !.cf = cf, !.xff = xff,
                                  !.userIP = ResolveIP(cf, xff)]
       IN  issue' = IssueGate(r, botToken)
  /\ UNCHANGED <<sideVars, codec, siteConfig, botToken, now, stream, analytics, issued>>

\* the movie query answers (or fails); a published movie leads to getFile
IssueDbReturn ==
  /\ issue.pc = "db"
  /\ \E failed \in BOOLEAN :
       IF failed
       THEN issue' = [issue EXCEPT !.pc = "done", !.status = 500,
                                   !.dbAnswer = "error"]
       ELSE LET found == FindPublished(issue.movie_slug)
            IN  IF found = {}
                THEN issue' = [issue EXCEPT !.pc = "done", !.status = 404,
                                            !.dbAnswer = "norow"]
                ELSE issue' = [issue EXCEPT !.pc = "getFile",
                                 !.dbAnswer = "row",
                                 !.movie_id = (CHOOSE m \in found : TRUE).id,
                                 !.getFileCalls = @ + 1,
                                 !.getFileArg = issue.file_id]
  /\ UNCHANGED <<sideVars, codec, siteConfig, botToken, now, served, stream, analytics, issued>>

\* a variant of IssueOnGetFile that never looks at fileData.ok
IssueOnGetFileUnchecked(r, answer, time) ==
  LET a == [r EXCEPT !.getFileAnswer = answer]
  IN  IF answer = "throw" THEN [a EXCEPT !.pc = "done", !.status = 500]
      ELSE LET expiresAt == time + TokenLifetimeMs
               g == generateTempToken(r.file_id, r.userIP, expiresAt)
           IN  IF g.threw THEN [a EXCEPT !.pc = "done", !.status = 500]
               ELSE [a EXCEPT !.pc = "insert", !.minted = TRUE,
                              !.mintedAt = time, !.token = g.token,
                              !.expiresAt = expiresAt]

\* the request r once getFile has answered at the instant time: fetch or
\* json() threw ("throw"), fileData.ok is false ("notok") or true ("ok")
IssueOnGetFile(r, answer, time) ==
  LET a == [r EXCEPT !.getFileAnswer = answer]
  IN  IF answer = "throw" THEN [a EXCEPT !.pc = "done", !.status = 500]
      ELSE IF answer = "notok" THEN [a EXCEPT !.pc = "done", !.status = 400]
      ELSE LET expiresAt == time + TokenLifetimeMs
               g == generateTempToken(r.file_id, r.userIP, expiresAt)
           IN  IF g.threw THEN [a EXCEPT !.pc = "done", !.status = 500]
               ELSE [a EXCEPT !.pc = "insert", !.minted = TRUE,
                              !.mintedAt = time, !.token = g.token,
                              !.expiresAt = expiresAt]

\* getFile answers: the token is generated and the analytics insert sent
IssueGetFileReturn ==
  /\ issue.pc = "getFile"
  /\ \E answer \in {"ok", "notok", "throw"} :
       issue' = IssueOnGetFile(issue, answer, now)
  /\ UNCHANGED <<sideVars, codec, siteConfig, botToken, now, served, stream, analytics, issued>>

\* a variant of IssueInsertReturn whose failed insert has written its row
\* before the error is reported
IssueInsertReturnRowKept ==
  /\ issue.pc = "insert"
  /\ analytics' = Append(analytics,
        [event_type |-> "video_access_request",
         page_url |-> issue.movie_slug,
         movie_id |-> issue.movie_id,
         user_ip |-> issue.userIP])
  /\ \E failed \in BOOLEAN :
       IF failed
       THEN /\ issue' = [issue EXCEPT !.pc = "done", !.status = 500,
                                        !.insertAnswer = "error"]
            /\ UNCHANGED issued
       ELSE /\ issue' = [issue EXCEPT !.pc = "done", !.status = 200,
                           !.insertAnswer = "ok",
                           !.video_url = issue.token, !.direct_url = TRUE,
                           !.expires_at = issue.expiresAt, !.rows = 1]
            /\ issued' = issued \cup
                  {[token |-> issue.token, file_id |-> issue.file_id,
                    movie_slug |-> issue.movie_slug, userIP |-> issue.userIP,
                    issuedAt |-> issue.mintedAt]}
  /\ UNCHANGED <<sideVars, codec, siteConfig, botToken, now, served, stream>>

\* the analytics insert answers (or fails); on success the response is sent
IssueInsertReturn ==
  /\ issue.pc = "insert"
  /\ \E failed \in BOOLEAN :
       IF failed
       THEN /\ issue' = [issue EXCEPT !.pc = "done", !.status = 500,
                                        !.insertAnswer = "error"]
            /\ UNCHANGED <<analytics, issued>>
       ELSE /\ analytics' = Append(analytics,
                  [event_type |-> "video_access_request",
                   page_url |-> issue.movie_slug,
                   movie_id |-> issue.movie_id,
                   user_ip |-> issue.userIP])
            /\ issue' = [issue EXCEPT !.pc = "done", !.status = 200,
                           !.insertAnswer = "ok",
                           !.video_url = issue.token, !.direct_url = TRUE,
                           !.expires_at = issue.expiresAt, !.rows = 1]
            /\ issued' = issued \cup
                  {[token |-> issue.token, file_id |-> issue.file_id,
                    movie_slug |-> issue.movie_slug, userIP |-> issue.userIP,
                    issuedAt |-> issue.mintedAt]}
  /\ UNCHANGED <<sideVars, codec, siteConfig, botToken, now, served, stream>>

(***************************************************************************)
(* GET /api/telegram/stream/:token                                         *)
(***************************************************************************)
\* strings presented to the stream endpoint that no issuance produced:
\* "A", "A:1:9:4", "B:1:99999999", "Q!!!"
StreamRawTokens ==
  { WireOf(<<65>>),
    WireOf(<<65, 58, 49, 58, 57, 58, 52>>),
    WireOf(<<66, 58, 49, 58, 57, 57, 57, 57, 57, 57, 57, 57>>),
    <<81, 33, 33, 33>> }

\* the tokens a client can present: those handed out, and any string
PresentableTokens == {t.token : t \in issued} \cup StreamRawTokens

\* a variant of StreamGate that checks the credential and sends getFile
\* before it looks at the verifier's result
StreamGateFetchFirst(r, tokenData, configured) ==
  IF ~configured THEN [r EXCEPT !.pc = "done", !.status = 503]
  ELSE IF tokenData.isNull
  THEN [r EXCEPT !.pc = "done", !.status = 401, !.getFileCalls = @ + 1]
  ELSE [r EXCEPT !.pc = "getFile", !.getFileCalls = @ + 1,
                 !.getFileArg = tokenData.file_id]

\* a variant of StreamGate that asks the file server for the bytes at a path
\* kept from the issuance, without a getFile of its own
StreamGateKeptPath(r, tokenData, configured) ==
  IF tokenData.isNull THEN [r EXCEPT !.pc = "done", !.status = 401]
  ELSE IF ~configured THEN [r EXCEPT !.pc = "done", !.status = 503]
  ELSE [r EXCEPT !.pc = "fetch", !.fetchCalls = @ + 1,
                 !.fetchArg = FilePath("issue", tokenData.file_id)]

\* the request r after verifyTempToken returned tokenData: 401 for null,
\* 503 without the credential, else getFile is sent for the token's file
StreamGate(r, tokenData, configured) ==
  IF tokenData.isNull THEN [r EXCEPT !.pc = "done", !.status = 401]
  ELSE IF ~configured THEN [r EXCEPT !.pc = "done", !.status = 503]
  ELSE [r EXCEPT !.pc = "getFile", !.getFileCalls = @ + 1,
                 !.getFileArg = tokenData.file_id]

\* the token is verified, the credential checked and getFile sent
StreamStart ==
  /\ stream.pc \in {"idle", "done"}
  /\ served < MaxRequests
  /\ served' = served + 1
  /\ \E token \in PresentableTokens, cf \in CfHeaders, xff \in XffHeaders :
       LET userIP == ResolveIP(cf, xff)
           tokenData == verifyTempToken(token, userIP, now)
           r == [StreamIdle EXCEPT !.token = token, !.tokenData = tokenData,
                                   !.verifiedAt = now]
       IN  stream' = StreamGate(r, tokenData, botToken)
  /\ UNCHANGED <<sideVars, codec, siteConfig, botToken, now, issue, analytics, issued>>

\* a variant of StreamOnGetFile that sends getFile a second time when the
\* first call threw
StreamOnGetFileRetry(r, answer) ==
  LET a == [r EXCEPT !.getFileAnswer = answer]
  IN  IF answer = "throw"
      THEN IF r.getFileCalls < 2
           THEN [a EXCEPT !.pc = "getFile", !.getFileCalls = @ + 1]
           ELSE [a EXCEPT !.pc = "done", !.status = 500]
      ELSE IF answer = "notok" THEN [a EXCEPT !.pc = "done", !.status = 404]
      ELSE LET path == FilePath("stream", r.getFileArg)
           IN  [a EXCEPT !.pc = "fetch", !.filePath = path,
                         !.fetchCalls = @ + 1, !.fetchArg = path]

\* the request r once getFile has answered: 500 when fetch or json() threw,
\* 404 when fileData.ok is false, else the bytes are requested at the
\* file_path of this answer
StreamOnGetFile(r, answer) ==
  LET a == [r EXCEPT !.getFileAnswer = answer]
  IN  IF answer = "throw" THEN [a EXCEPT !.pc = "done", !.status = 500]
      ELSE IF answer = "notok" THEN [a EXCEPT !.pc = "done", !.status = 404]
      ELSE LET path == FilePath("stream", r.getFileArg)
           IN  [a EXCEPT !.pc = "fetch", !.filePath = path,
                         !.fetchCalls = @ + 1, !.fetchArg = path]

\* getFile answers: the bytes are requested from the fresh locator
StreamGetFileReturn ==
  /\ stream.pc = "getFile"
  /\ \E answer \in {"ok", "notok", "throw"} :
       stream' = StreamOnGetFile(stream, answer)
  /\ UNCHANGED <<sideVars, codec, siteConfig, botToken, now, served, issue, analytics, issued>>

\* a variant of StreamOnFetch that never looks at videoResponse.ok and relays
\* whatever status the file server answered (403 here)
StreamOnFetchUnchecked(r, answer, length) ==
  LET a == [r EXCEPT !.fetchAnswer = answer]
  IN  IF answer = "throw" THEN [a EXCEPT !.pc = "done", !.status = 500]
      ELSE [a EXCEPT !.pc = "done",
                     !.status = IF answer = "notok" THEN 403 ELSE 200,
                     !.upstreamLength = length,
                     !.contentLength = IF length = "none" THEN "0" ELSE length]

\* the request r once the byte fetch has answered, with the Content-Length
\* header length ("none" when absent): 500 when fetch threw, 404 when
\* videoResponse.ok is false, else the body is relayed with
\* Content-Length: length || '0'
StreamOnFetch(r, answer, length) ==
  LET a == [r EXCEPT !.fetchAnswer = answer]
  IN  IF answer = "throw" THEN [a EXCEPT !.pc = "done", !.status = 500]
      ELSE IF answer = "notok" THEN [a EXCEPT !.pc = "done", !.status = 404]
      ELSE [a EXCEPT !.pc = "done", !.status = 200,
                     !.upstreamLength = length,
                     !.contentLength = IF length = "none" THEN "0" ELSE length]

\* the byte fetch answers: the body is relayed with the passed-through headers
StreamFetchReturn ==
  /\ stream.pc = "fetch"
  /\ \E answer \in {"ok", "notok", "throw"}, length \in {"none", "1024"} :
       stream' = StreamOnFetch(stream, answer, length)
  /\ UNCHANGED <<sideVars, codec, siteConfig, botToken, now, served, issue, analytics, issued>>

Next ==
  \/ Tick
  \/ IssueMalformedBody
  \/ IssueStart
  \/ IssueDbReturn
  \/ IssueGetFileReturn
  \/ IssueInsertReturn
  \/ StreamStart
  \/ StreamGetFileReturn
  \/ StreamFetchReturn

Spec == Init /\ [][Next]_vars

(***************************************************************************)
(* PUT /api/admin/settings, next to the issuance endpoint: the            *)
(* administrator rewrites the configured token lifetime between requests.  *)
(***************************************************************************)
\* INSERT OR REPLACE INTO site_config for the key video_token_expiry
UpdateSettings ==
  /\ \E v \in VideoTokenExpiryValues : siteConfig' = v
  /\ UNCHANGED <<sideVars, codec, botToken, now, served, issue, stream, analytics, issued>>

NextConfig ==
  \/ UpdateSettings
  \/ Tick
  \/ IssueMalformedBody
  \/ IssueStart
  \/ IssueDbReturn
  \/ IssueGetFileReturn
  \/ IssueInsertReturn

SpecConfig == Init /\ [][NextConfig]_vars

(***************************************************************************)
(* The stream proxy and a file server that may never answer: an answer     *)
(* arrives, if it ever does, and the runtime then resumes the handler at   *)
(* its await.  The handler sets no timer and passes no abort signal to     *)
(* fetch.                                                                  *)
(***************************************************************************)
\* the file server answers the call the stream request is waiting for
UpstreamAnswers ==
  /\ stream.pc \in {"getFile", "fetch"}
  /\ arrived = NoAnswer
  /\ \E answer \in {"ok", "notok", "throw"}, length \in {"none", "1024"} :
       arrived' = [answer |-> answer, length |-> length]
  /\ UNCHANGED <<codec, siteConfig, botToken, now, served, issue, stream,
                 analytics, issued, accesses, pageVars>>

\* await fetch(getFile) settles: the handler goes on
StreamGetFileResume ==
  /\ stream.pc = "getFile"
  /\ arrived # NoAnswer
  /\ stream' = StreamOnGetFile(stream, arrived.answer)
  /\ arrived' = NoAnswer
  /\ UNCHANGED <<codec, siteConfig, botToken, now, served, issue, analytics,
                 issued, accesses, pageVars>>

\* await fetch(videoUrl) settles: the handler goes on
StreamFetchResume ==
  /\ stream.pc = "fetch"
  /\ arrived # NoAnswer
  /\ stream' = StreamOnFetch(stream, arrived.answer, arrived.length)
  /\ arrived' = NoAnswer
  /\ UNCHANGED <<codec, siteConfig, botToken, now, served, issue, analytics,
                 issued, accesses, pageVars>>

NextLive ==
  \/ Tick
  \/ StreamStart
  \/ UpstreamAnswers
  \/ StreamGetFileResume
  \/ StreamFetchResume

\* the runtime resumes a handler whose awaited call has settled; nothing
\* makes the file server answer
SpecLive ==
  /\ Init
  /\ [][NextLive]_vars
  /\ WF_vars(StreamGetFileResume)
  /\ WF_vars(StreamFetchResume)

(***************************************************************************)
(* POST /api/analytics and POST /api/analytics/batch, next to the issuance *)
(* endpoint: the three writers of the analytics table.                     *)
(***************************************************************************)
\* const validEventTypes = [...]
ValidEventTypes ==
  {"page_view", "blog_view", "video_view", "watch_button_click", "ad_click",
   "video_play", "video_pause", "video_error", "video_loaded",
   "unlock_timer_start", "unlock_timer_complete", "unlock_button_click",
   "telegram_stream_start", "standard_stream_start", "ad_view",
   "monetization_ad_view", "monetization_unlock_timer_start",
   "monetization_unlock_timer_complete"}

\* the event types that clients send
SentEventTypes == {"page_view", "video_play", "bogus"}

\* events.length > 100
MaxBatchLength == 100

\* an element of the events array: an object with an event_type, or null
Event(type) == [isNull |-> FALSE, event_type |-> type]
NullEvent == [isNull |-> TRUE, event_type |-> ""]

\* the bodies sent to the batch endpoint: events is no array, is empty, holds
\* a valid and an unlisted type, holds null between two events, holds
\* LongBatch events, holds one event more than the maximum
BatchBodies ==
  { [isArray |-> FALSE, events |-> <<>>],
    [isArray |-> TRUE, events |-> <<>>],
    [isArray |-> TRUE, events |-> <<Event("page_view"), Event("bogus")>>],
    [isArray |-> TRUE,
     events |-> <<Event("page_view"), NullEvent, Event("video_play")>>],
    [isArray |-> TRUE, events |-> [k \in 1..LongBatch |-> Event("video_play")]],
    [isArray |-> TRUE,
     events |-> [k \in 1..(MaxBatchLength + 1) |-> Event("page_view")]] }

\* the row that the tracking endpoints insert for an event type sent without
\* a client address header
TrackedRow(type) ==
  [event_type |-> type, page_url |-> "/", movie_id |-> 0,
   user_ip |-> <<117, 110, 107, 110, 111, 119, 110>>]

\* the body is parsed and the event type validated; the insert is sent
TrackStart ==
  /\ track.pc \in {"idle", "done"}
  /\ served < MaxRequests
  /\ served' = served + 1
  /\ \/ track' = [TrackIdle EXCEPT !.pc = "done", !.status = 500]
     \/ \E type \in SentEventTypes :
          LET r == [TrackIdle EXCEPT !.event_type = type]
          IN  IF type \notin ValidEventTypes
              THEN track' = [r EXCEPT !.pc = "done", !.status = 400]
              ELSE track' = [r EXCEPT !.pc = "insert"]
  /\ UNCHANGED <<tokenVars, analytics, batch, viewCount, blogReqs, cron>>

\* the insert answers (or fails); an error of the metadata insert that may
\* follow is ignored
TrackInsertReturn ==
  /\ track.pc = "insert"
  /\ \E failed \in BOOLEAN :
       IF failed
       THEN /\ track' = [track EXCEPT !.pc = "done", !.status = 500]
            /\ UNCHANGED analytics
       ELSE /\ analytics' = Append(analytics, TrackedRow(track.event_type))
            /\ track' = [track EXCEPT !.pc = "done", !.status = 200, !.rows = 1]
  /\ UNCHANGED <<tokenVars, served, batch, viewCount, blogReqs, cron>>

\* the batch request r when its loop reaches events[r.i]: past the end the
\* response is sent; for null, event.event_type throws in the try block and
\* again in its catch, which ends the request in the outer catch; else the
\* insert of the event is sent
BatchAt(r) ==
  IF r.i > Len(r.events)
  THEN [r EXCEPT !.pc = "done", !.status = 200,
                 !.processed = Len(r.events),
                 !.successful = r.successCount,
                 !.failed = Len(r.errors),
                 !.reported = SubSeq(r.errors, 1,
                                IF Len(r.errors) < 5 THEN Len(r.errors) ELSE 5)]
  ELSE IF r.events[r.i].isNull THEN [r EXCEPT !.pc = "done", !.status = 500]
  ELSE [r EXCEPT !.pc = "insert"]

\* the body is parsed and events checked; the first insert is sent
BatchStart ==
  /\ batch.pc \in {"idle", "done"}
  /\ served < MaxRequests
  /\ served' = served + 1
  /\ \/ batch' = [BatchIdle EXCEPT !.pc = "done", !.status = 500]
     \/ \E body \in BatchBodies :
          IF ~body.isArray \/ Len(body.events) = 0
          THEN batch' = [BatchIdle EXCEPT !.pc = "done", !.status = 400]
          ELSE IF Len(body.events) > MaxBatchLength
          THEN batch' = [BatchIdle EXCEPT !.pc = "done", !.status = 400]
          ELSE batch' = BatchAt([BatchIdle EXCEPT !.events = body.events,
                                                  !.i = 1])
  /\ UNCHANGED <<tokenVars, analytics, track, viewCount, blogReqs, cron>>

\* the insert of events[i] answers (or fails) and the loop goes on
BatchInsertReturn ==
  /\ batch.pc = "insert"
  /\ \E failed \in BOOLEAN :
       IF failed
       THEN /\ batch' = BatchAt([batch EXCEPT
                          !.errors = Append(@, batch.events[batch.i].event_type),
                          !.i = @ + 1])
            /\ UNCHANGED analytics
       ELSE /\ analytics' = Append(analytics,
                               TrackedRow(batch.events[batch.i].event_type))
            /\ batch' = BatchAt([batch EXCEPT !.successCount = @ + 1,
                                               !.rows = @ + 1, !.i = @ + 1])
  /\ UNCHANGED <<tokenVars, served, track, viewCount, blogReqs, cron>>

NextTrack ==
  \/ TrackStart
  \/ TrackInsertReturn
  \/ BatchStart
  \/ BatchInsertReturn
  \/ IssueMalformedBody
  \/ IssueStart
  \/ IssueDbReturn
  \/ IssueGetFileReturn
  \/ IssueInsertReturn

SpecTrack == Init /\ [][NextTrack]_vars

(***************************************************************************)
(* GET /api/blog/:slug, several requests at once.                          *)
(***************************************************************************)
\* SELECT bp.* ... WHERE bp.slug = ? AND bp.published = TRUE  (.first())
FindPublishedPost(slug) == {post \in BlogPosts : post.slug = slug /\ post.published}

\* a variant of IncrementViewCount that writes the view_count of the
\* selected row plus one
IncrementSelectedCount(counts, r) == [counts EXCEPT ![r.id] = r.view_count + 1]

\* UPDATE blog_posts SET view_count = view_count + 1 WHERE id = ?
IncrementViewCount(counts, r) == [counts EXCEPT ![r.id] = @ + 1]

\* a request arrives and the select is sent
BlogStart ==
  /\ served < MaxRequests
  /\ served' = served + 1
  /\ \E k \in BlogSlots, slug \in BlogSlugs :
       /\ blogReqs[k].pc \in {"idle", "done"}
       /\ blogReqs' = [blogReqs EXCEPT ![k] =
                         [BlogIdle EXCEPT !.pc = "select", !.slug = slug]]
  /\ UNCHANGED <<tokenVars, analytics, track, batch, viewCount, cron>>

\* the select answers (or fails): 404 without a published row, else the
\* update is sent
BlogSelectReturn ==
  /\ \E k \in BlogSlots, failed \in BOOLEAN :
       /\ blogReqs[k].pc = "select"
       /\ LET r == blogReqs[k]
              found == FindPublishedPost(r.slug)
          IN  blogReqs' = [blogReqs EXCEPT ![k] =
                IF failed THEN [r EXCEPT !.pc = "done", !.status = 500]
                ELSE IF found = {} THEN [r EXCEPT !.pc = "done", !.status = 404]
                ELSE LET blog == CHOOSE post \in found : TRUE
                     IN  [r EXCEPT !.pc = "update", !.id = blog.id,
                                   !.view_count = viewCount[blog.id]]]
  /\ UNCHANGED <<tokenVars, served, analytics, track, batch, viewCount, cron>>

\* the update answers (or fails) and the post is returned
BlogUpdateReturn ==
  /\ \E k \in BlogSlots, failed \in BOOLEAN :
       /\ blogReqs[k].pc = "update"
       /\ IF failed
          THEN /\ blogReqs' = [blogReqs EXCEPT ![k].pc = "done",
                                               ![k].status = 500]
               /\ UNCHANGED viewCount
          ELSE /\ viewCount' = IncrementViewCount(viewCount, blogReqs[k])
               /\ blogReqs' = [blogReqs EXCEPT ![k].pc = "done",
                                               ![k].status = 200]
  /\ UNCHANGED <<tokenVars, served, analytics, track, batch, cron>>

NextBlog == BlogStart \/ BlogSelectReturn \/ BlogUpdateReturn

SpecBlog == Init /\ [][NextBlog]_vars

(***************************************************************************)
(* GET /api/cron/generate-content                                          *)
(***************************************************************************)
\* LIMIT 3
CronLimit == 3

\* the run r when its loop reaches movies[r.i]: past the end the response is
\* sent, else the content of the movie is requested from the generator
CronAt(r) ==
  IF r.i > Len(r.movies)
  THEN [r EXCEPT !.pc = "done", !.status = 200,
                 !.generated_count = r.successCount,
                 !.error_count = Len(r.errors)]
  ELSE [r EXCEPT !.pc = "generate"]

\* the catch of the loop body: the error is noted and the insert of a
\* 'failed' content_jobs row is sent
CronCatch(r) ==
  [r EXCEPT !.pc = "insertFailedJob", !.errors = Append(@, r.movies[r.i])]

\* the headers and the API key are checked and the movie query sent
CronStart ==
  /\ cron.pc = "idle"
  /\ \E header \in BOOLEAN, openaiApiKey \in BOOLEAN :
       LET r == [CronIdle EXCEPT !.header = header]
       IN  IF ~header THEN cron' = [r EXCEPT !.pc = "done", !.status = 401]
           ELSE IF ~openaiApiKey
           THEN cron' = [r EXCEPT !.pc = "done", !.status = 500]
           ELSE cron' = [r EXCEPT !.pc = "select"]
  /\ UNCHANGED <<tokenVars, served, analytics, track, batch, viewCount,
                 blogReqs>>

\* the movie query answers (or fails) with at most three movies
CronSelectReturn ==
  /\ cron.pc = "select"
  /\ \/ cron' = [cron EXCEPT !.pc = "done", !.status = 500]
     \/ \E n \in 0..CronLimit :
          IF n = 0
          THEN cron' = [cron EXCEPT !.pc = "done", !.status = 200]
          ELSE cron' = CronAt([cron EXCEPT !.movies = [k \in 1..n |-> k],
                                           !.i = 1])
  /\ UNCHANGED <<tokenVars, served, analytics, track, batch, viewCount,
                 blogReqs>>

\* generateContent answers (or throws): the blog post insert is sent
CronGenerateReturn ==
  /\ cron.pc = "generate"
  /\ \E threw \in BOOLEAN :
       cron' = IF threw THEN CronCatch(cron)
               ELSE [cron EXCEPT !.pc = "insertPost"]
  /\ UNCHANGED <<tokenVars, served, analytics, track, batch, viewCount,
                 blogReqs>>

\* the blog post insert answers (or fails): the insert of a 'completed'
\* content_jobs row is sent
CronInsertPostReturn ==
  /\ cron.pc = "insertPost"
  /\ \E failed \in BOOLEAN :
       cron' = IF failed THEN CronCatch(cron)
               ELSE [cron EXCEPT !.pc = "insertJob",
                                 !.posts = @ \cup {cron.movies[cron.i]}]
  /\ UNCHANGED <<tokenVars, served, analytics, track, batch, viewCount,
                 blogReqs>>

\* the insert of the 'completed' row answers (or fails): the success is
\* counted and the two-second pause starts
CronInsertJobReturn ==
  /\ cron.pc = "insertJob"
  /\ \E failed \in BOOLEAN :
       cron' = IF failed THEN CronCatch(cron)
               ELSE [cron EXCEPT !.pc = "delay", !.successCount = @ + 1,
                       !.jobs = Append(@, [movie |-> cron.movies[cron.i],
                                           status |-> "completed"])]
  /\ UNCHANGED <<tokenVars, served, analytics, track, batch, viewCount,
                 blogReqs>>

\* the pause is over and the loop goes on
CronDelayReturn ==
  /\ cron.pc = "delay"
  /\ cron' = CronAt([cron EXCEPT !.i = @ + 1])
  /\ UNCHANGED <<tokenVars, served, analytics, track, batch, viewCount,
                 blogReqs>>

\* the insert of the 'failed' row answers and the loop goes on, or fails and
\* the error reaches the outer catch
CronInsertFailedJobReturn ==
  /\ cron.pc = "insertFailedJob"
  /\ \E failed \in BOOLEAN :
       cron' = IF failed THEN [cron EXCEPT !.pc = "done", !.status = 500]
               ELSE CronAt([cron EXCEPT !.i = @ + 1,
                              !.jobs = Append(@, [movie |-> cron.movies[cron.i],
                                                  status |-> "failed"])])
  /\ UNCHANGED <<tokenVars, served, analytics, track, batch, viewCount,
                 blogReqs>>

NextCron ==
  \/ CronStart
  \/ CronSelectReturn
  \/ CronGenerateReturn
  \/ CronInsertPostReturn
  \/ CronInsertJobReturn
  \/ CronDelayReturn
  \/ CronInsertFailedJobReturn

SpecCron == Init /\ [][NextCron]_vars

(***************************************************************************)
(* Properties.                                                             *)
(***************************************************************************)
\* the fields of a wire string's decoded content: the alphabet map reversed,
\* the padding restored, base64 decoded, split on ':' (no field when the
\* string does not decode)
DecodedFields(token) ==
  LET padding == Repeat(61, (4 - (Len(token) % 4)) % 4)
      dec == atob(ReplaceAll(ReplaceAll(token, 45, 43), 95, 47) \o padding)
  IN  IF dec.threw THEN <<>> ELSE split(dec.data, 58)

Decodes(token) == DecodedFields(token) # <<>>

IsDecimal(s) == Len(s) > 0 /\ \A i \in 1..Len(s) : s[i] >= 48 /\ s[i] <= 57

RECURSIVE DecimalValue(_)
DecimalValue(s) ==
  IF Len(s) = 0 THEN 0
  ELSE 10 * DecimalValue(SubSeq(s, 1, Len(s) - 1)) + (s[Len(s)] - 48)

\* an integer in decimal notation, with an optional sign
IsInteger(s) ==
  IF Len(s) > 0 /\ s[1] \in {43, 45} THEN IsDecimal(Tail(s)) ELSE IsDecimal(s)

\* three fields, the third a decimal expiry
WellFormedToken(token) ==
  LET f == DecodedFields(token) IN Len(f) = 3 /\ IsDecimal(f[3])

\* a character that is neither of the base64 alphabet once the URL-safe map
\* is reversed, nor padding, nor white space
HasInvalidCharacter(token) ==
  \E i \in 1..Len(token) :
    /\ token[i] \notin {45, 95, 61, 9, 10, 12, 13, 32}
    /\ B64Index(token[i]) < 0

\* the movies table holds a published row with this slug
IsReleased(slug) == \E m \in Movies : m.slug = slug /\ m.published

\* C1: a token generated for a valid triple and verified no later than its
\* expiry yields the file identifier and the expiry that were encoded, also
\* for a requester identity that contains ':'
C1_RoundTrip ==
  (codec.pc = "verified" /\ codec.minted /\ codec.time <= codec.expiresAt) =>
    /\ ~codec.result.isNull
    /\ codec.result.file_id = codec.fileId
    /\ codec.result.expires_at = Num(codec.expiresAt)

\* C2: a well-formed token is accepted exactly when now <= its expiry
C2_ExpiryCheck ==
  (codec.pc = "verified" /\ WellFormedToken(codec.token)) =>
    (~codec.result.isNull <=>
       codec.time <= DecimalValue(DecodedFields(codec.token)[3]))

\* C2 witness: a well-formed token whose expiry is now - 1 was rejected
C2_Witness ==
  /\ codec.pc = "verified"
  /\ WellFormedToken(codec.token)
  /\ DecimalValue(DecodedFields(codec.token)[3]) = codec.time - 1
  /\ codec.result.isNull

\* C3: a token whose decoded content has fewer or more than three fields is
\* rejected by the verifier, and its stream request ends with 401
C3_FieldCountRejected ==
  (stream.pc # "idle" /\ Decodes(stream.token)
     /\ Len(DecodedFields(stream.token)) # 3) =>
    /\ stream.tokenData.isNull
    /\ stream.pc = "done"
    /\ stream.status = 401

\* C4: a token whose third decoded field is missing or is no integer is
\* rejected by the verifier at every instant
C4_NonIntegerExpiryRejected ==
  (codec.pc = "verified" /\ Decodes(codec.token)
     /\ (Len(DecodedFields(codec.token)) < 3
         \/ ~IsInteger(DecodedFields(codec.token)[3]))) =>
    codec.result.isNull

\* C5: a token with a character outside the alphabet does not decode, the
\* verifier returns null for it and its stream request ends with 401
C5_InvalidCharacterRejected ==
  (stream.pc # "idle" /\ HasInvalidCharacter(stream.token)) =>
    /\ ~Decodes(stream.token)
    /\ stream.tokenData.isNull
    /\ stream.pc = "done"
    /\ stream.status = 401

\* C5 witness: the stream request for "Q!!!" was answered 401
C5_Witness ==
  /\ stream.pc = "done"
  /\ stream.token = <<81, 33, 33, 33>>
  /\ HasInvalidCharacter(stream.token)
  /\ stream.status = 401

\* C6: an upstream call of a stream request comes after a successful
\* verification; a request whose verification failed ended with 401 and made
\* neither a getFile lookup nor a byte fetch
C6_VerifierGates ==
  /\ (stream.getFileCalls > 0 \/ stream.fetchCalls > 0) =>
       ~stream.tokenData.isNull
  /\ (stream.pc # "idle" /\ stream.tokenData.isNull) =>
       /\ stream.pc = "done"
       /\ stream.status = 401
       /\ stream.getFileCalls = 0
       /\ stream.fetchCalls = 0

\* C6 witness: with the credential configured, a request with an expired
\* issued token ended with 401 and no upstream call
C6_Witness ==
  /\ botToken
  /\ stream.pc = "done"
  /\ stream.status = 401
  /\ stream.token \in {t.token : t \in issued}
  /\ stream.getFileCalls = 0

\* C7: a token issued at T is accepted by every stream request verified up to
\* T + 3600 s, which succeeds when the credential is configured and the
\* upstream healthy, and is answered 401 by every request verified later (so
\* that, the clock never going back, no request after a rejection succeeds)
C7_TokenLifetime ==
  \A t \in issued :
    (stream.pc # "idle" /\ stream.token = t.token) =>
      IF stream.verifiedAt <= t.issuedAt + TokenLifetimeMs
      THEN /\ ~stream.tokenData.isNull
           /\ (stream.pc = "done" /\ botToken /\ stream.getFileAnswer = "ok"
                 /\ stream.fetchAnswer = "ok") => stream.status = 200
      ELSE stream.pc = "done" /\ stream.status = 401

\* C8: every token handed out for slug S carries the file identifier stored
\* for the published movie S
C8_StoredFileIdentifier ==
  \A t \in issued :
    \E m \in {r \in Movies : r.slug = t.movie_slug /\ r.published} :
      /\ t.file_id = m.telegram_file_id
      /\ DecodedFields(t.token)[1] = m.telegram_file_id

\* C9 as stated: a request that names an absent or unpublished movie is
\* answered 404, with no token, no upstream lookup and no analytics row
C9_NotFound ==
  (issue.pc = "done" /\ issue.movie_slug \in Slugs
     /\ ~IsReleased(issue.movie_slug)) =>
    /\ issue.status = 404
    /\ ~issue.minted
    /\ issue.getFileCalls = 0
    /\ issue.rows = 0

\* C9 amended: when the credential is configured and the movie query answers
\* without a published row the response is 404; whatever the response, a
\* request that names an absent or unpublished movie mints no token, makes no
\* upstream lookup and writes no analytics row
C9_NotFoundWhenQueried ==
  /\ (issue.movie_slug \in Slugs /\ ~IsReleased(issue.movie_slug)) =>
       /\ ~issue.minted
       /\ issue.getFileCalls = 0
       /\ issue.rows = 0
       /\ issue.dbAnswer \in {"none", "norow", "error"}
       /\ (issue.pc = "done" /\ botToken /\ issue.dbAnswer # "error") =>
            (issue.dbAnswer = "norow" /\ issue.status = 404)
  /\ \A i \in 1..Len(analytics) : IsReleased(analytics[i].page_url)
  /\ \A t \in issued : IsReleased(t.movie_slug)

\* C9 witness: the request for the unpublished movie-y was answered 404
C9_Witness ==
  /\ issue.pc = "done"
  /\ issue.movie_slug = "movie-y"
  /\ issue.dbAnswer = "norow"
  /\ issue.status = 404

\* C10 as stated: when getFile reports the identifier invalid the response is
\* of the service-unavailable class (5xx), no token is minted and no
\* analytics row written
C10_UpstreamInvalidIs5xx ==
  (issue.getFileAnswer = "notok") =>
    /\ issue.pc = "done"
    /\ issue.status >= 500
    /\ ~issue.minted
    /\ issue.rows = 0

\* C10 amended: when getFile reports the identifier invalid the response is
\* 400, no token is minted or returned and no analytics row is written
C10_UpstreamInvalidIs400 ==
  (issue.getFileAnswer = "notok") =>
    /\ issue.pc = "done"
    /\ issue.status = 400
    /\ ~issue.minted
    /\ issue.video_url = <<>>
    /\ issue.rows = 0

\* C10 witness: getFile answered not ok and the request ended with 400
C10_Witness ==
  /\ issue.pc = "done"
  /\ issue.getFileAnswer = "notok"
  /\ issue.status = 400

\* the caller identity the claims name: CF-Connecting-IP when present, else
\* X-Forwarded-For when present, else 'unknown'
CallerIdentity(cf, xff) ==
  IF cf.present THEN cf.value
  ELSE IF xff.present THEN xff.value
  ELSE <<117, 110, 107, 110, 111, 119, 110>>

\* C11: a successful issuance at the instant T, by the caller identity I and
\* for the file identifier F, returns a stream URL whose token decodes to the
\* three fields F, I and T + 3,600,000, and the expires_at of the response is
\* the expiry embedded in the token
C11_IssuedTokenContent ==
  (issue.pc = "done" /\ issue.status = 200) =>
    LET fields == DecodedFields(issue.video_url)
        I == CallerIdentity(issue.cf, issue.xff)
    IN  /\ fields = <<issue.file_id, I, NumToStr(issue.mintedAt + 3600000)>>
        /\ issue.expires_at = DecimalValue(fields[3])

\* C12: the lifetime of a token is the configured one: whenever a token is
\* minted, its expiry is the instant of issuance plus the number of seconds
\* stored under video_token_expiry at that moment, so that a changed setting
\* changes the expiry of the tokens issued afterwards
C12_ConfiguredLifetime ==
  [][(issue'.minted /\ ~issue.minted) =>
       issue'.expiresAt = issue'.mintedAt + siteConfig * 1000]_vars

\* C13: issuance succeeds whether or not the analytics write does: once the
\* token is minted and the insert has answered, even with an error, the
\* response is a success that carries the stream URL and the expiry
C13_AnalyticsIndependent ==
  (issue.pc = "done" /\ issue.minted /\ issue.insertAnswer # "none") =>
    /\ issue.status = 200
    /\ issue.video_url = issue.token
    /\ issue.expires_at = issue.expiresAt

\* the video_access_request event of a successful issuance: the movie is the
\* published one of the request's slug, the identity the caller's
AccessEvent(r) ==
  [event_type |-> "video_access_request",
   page_url |-> r.movie_slug,
   movie_id |-> (CHOOSE m \in Movies : m.slug = r.movie_slug /\ m.published).id,
   user_ip |-> CallerIdentity(r.cf, r.xff)]

\* C14: the analytics table grows by exactly one video_access_request event,
\* for the resolved movie and the caller identity, in the step that completes
\* an issuance with success, and is left alone by every other step, so that
\* failing issuances write nothing and the events count the successes
C14_OneEventPerSuccess ==
  [][IF issue.pc # "done" /\ issue'.pc = "done" /\ issue'.status = 200
     THEN analytics' = Append(analytics, AccessEvent(issue'))
     ELSE analytics' = analytics]_vars

\* C14 witness: a second issuance has succeeded and two events are stored
C14_Witness ==
  /\ issue.pc = "done"
  /\ issue.status = 200
  /\ Len(analytics) = 2

\* C15: a stream request that asks the file server for bytes has sent its own
\* getFile before, got a positive answer, and asks at the locator of that
\* answer (never at one obtained by another request); when getFile reports
\* the file gone the request ends with 404 and no byte fetch
C15_FreshLocator ==
  /\ (stream.fetchCalls > 0) =>
       /\ stream.getFileCalls > 0
       /\ stream.getFileArg = stream.tokenData.file_id
       /\ stream.getFileAnswer = "ok"
       /\ stream.fetchArg =
            [request |-> "stream", file_id |-> stream.tokenData.file_id]
  /\ (stream.getFileAnswer = "notok") =>
       /\ stream.pc = "done"
       /\ stream.status = 404
       /\ stream.fetchCalls = 0

\* C15 witness: bytes were relayed for a token handed out by an issuance
C15_Witness ==
  /\ stream.pc = "done"
  /\ stream.status = 200
  /\ stream.fetchCalls = 1
  /\ stream.token \in {t.token : t \in issued}

C17_NoCredential ==
  ~botToken =>
    /\ (issue.pc # "idle") =>
         /\ issue.pc = "done"
         /\ issue.status = 500
         /\ issue.dbLookups = 0
         /\ issue.getFileCalls = 0
         /\ issue.rows = 0
    /\ analytics = <<>>
    /\ (stream.pc # "idle") =>
         /\ stream.pc = "done"
         /\ stream.getFileCalls = 0
         /\ stream.fetchCalls = 0
         /\ stream.status = IF stream.tokenData.isNull THEN 401 ELSE 503

\* C17 witness: without the credential, an issuance for a published movie
\* was answered 500 and a stream request with a valid token 503
C17_Witness ==
  /\ ~botToken
  /\ issue.pc = "done"
  /\ issue.movie_slug = "movie-x"
  /\ issue.status = 500
  /\ stream.pc = "done"
  /\ stream.status = 503

\* C18: the Content-Length of a relayed response is the one the file server
\* reported, and the header is absent when the file server reported none
C18_ContentLengthPassThrough ==
  (stream.pc = "done" /\ stream.status = 200) =>
    stream.contentLength = stream.upstreamLength

\* C19: no upstream call is repeated within a request: an issuance sends at
\* most one getFile, a stream request at most one getFile and at most one
\* byte fetch, and a request whose upstream call failed is over
C19_NoRetry ==
  /\ issue.getFileCalls <= 1
  /\ stream.getFileCalls <= 1
  /\ stream.fetchCalls <= 1
  /\ (issue.getFileAnswer \in {"throw", "notok"}) => issue.pc = "done"
  /\ (stream.getFileAnswer \in {"throw", "notok"}) => stream.pc = "done"
  /\ (stream.fetchAnswer \in {"throw", "notok"}) => stream.pc = "done"

\* C19 witness: the getFile of a stream request threw and the request ended
\* after that single call
C19_Witness ==
  /\ stream.pc = "done"
  /\ stream.getFileAnswer = "throw"
  /\ stream.getFileCalls = 1
  /\ stream.status = 500

\* C20: the identity check is the lenient one: what verifyTempToken returns
\* for a token at an instant is the same for every presenting identity,
\* whether or not it is the identity the token was issued to
C20_LenientIdentity ==
  (codec.pc = "verified") =>
    \A ip \in Identities :
      verifyTempToken(codec.token, ip, codec.time) = codec.result

\* C20 witness: a token generated for one identity was presented by another
\* and accepted
C20_Witness ==
  /\ codec.pc = "verified"
  /\ codec.minted
  /\ codec.presenter # codec.userIP
  /\ ~codec.result.isNull

\* the accesses before the i-th that the verifier accepted
AcceptedBefore(i) == {j \in 1..(i - 1) : accesses[j].accepted}

\* C21: a token is good for five accesses: an access that follows five
\* accepted accesses with the same token is rejected, so that the number of
\* uses of a token never exceeds its max_uses
C21_UseCountLimit ==
  \A i \in 1..Len(accesses) :
    (Cardinality(AcceptedBefore(i)) >= 5) => ~accesses[i].accepted

\* C22: of two stream requests in flight at once with the same unexpired
\* token, the first of which arrived after four accepted accesses, exactly
\* one is accepted
C22_ConcurrentLastUse ==
  \A i, j \in 1..Len(accesses) :
    (/\ i < j
     /\ ~accesses[i].done
     /\ ~accesses[j].done
     /\ Cardinality(AcceptedBefore(i)) = 4
     /\ codec.time <= codec.expiresAt) =>
      accesses[i].accepted # accesses[j].accepted

\* C23: a wire string that a client encodes itself for a file identifier B,
\* an identity and an expiry, without the issuer, is accepted by
\* verifyTempToken at every instant up to that expiry and yields B
C23_ForgedTokenAccepted ==
  (/\ codec.pc = "verified"
   /\ ~codec.minted
   /\ codec.fileId # <<>>
   /\ codec.time <= codec.expiresAt) =>
    /\ ~codec.result.isNull
    /\ codec.result.file_id = codec.fileId

\* C24: a stream request that waits for the file server, for getFile or for
\* the bytes, eventually ends with a response or an error, whether or not
\* the file server answers
C24_StreamTerminates ==
  (stream.pc \in {"getFile", "fetch"}) ~> (stream.pc = "done")

\* C25: no response of the issuance endpoint carries the bot credential or
\* the download locator of the file server (direct_url is the URL
\* https://api.telegram.org/file/bot<credential>/<file_path>), so that the
\* bytes are reachable only through the stream proxy and its verifier
C25_NoDirectLocator ==
  (issue.pc = "done") => ~issue.direct_url

\* C26: the wire form of every token that generateTempToken produces holds
\* no '+', no '/' and no '='
C26_UrlSafeAlphabet ==
  (codec.minted) =>
    \A i \in 1..Len(codec.token) : codec.token[i] \notin {43, 47, 61}

\* C26 witness: a generated token whose base64 form holds '+' and '/' and
\* ends with padding: its wire form holds '-' and '_' and its length is not
\* a multiple of four
C26_Witness ==
  /\ codec.minted
  /\ \E i \in 1..Len(codec.token) : codec.token[i] = 45
  /\ \E i \in 1..Len(codec.token) : codec.token[i] = 95
  /\ Len(codec.token) % 4 # 0

\* C27: every row of the analytics table, whichever endpoint wrote it, has
\* an event type of the list that the single-event endpoint validates
\* against, and a tracking request with another type writes no row
C27_ValidEventTypes ==
  /\ \A k \in 1..Len(analytics) :
       analytics[k].event_type \in
         {"page_view", "blog_view", "video_view", "watch_button_click",
          "ad_click", "video_play", "video_pause", "video_error",
          "video_loaded", "unlock_timer_start", "unlock_timer_complete",
          "unlock_button_click", "telegram_stream_start",
          "standard_stream_start", "ad_view", "monetization_ad_view",
          "monetization_unlock_timer_start",
          "monetization_unlock_timer_complete"}
  /\ (track.pc = "done" /\ track.event_type = "bogus") => track.rows = 0

\* C29: a batch answered 400 has written no row; a batch that passed the
\* checks on events ends with every event attempted and a response in which
\* processed is the number of events and the sum of successful and failed,
\* successful is the number of rows the request inserted, and at most five
\* errors are listed
C29_BatchAccounting ==
  /\ (batch.pc = "done" /\ batch.status = 400) => batch.rows = 0
  /\ (batch.pc = "done" /\ batch.events # <<>>) =>
       /\ batch.status = 200
       /\ batch.i = Len(batch.events) + 1
       /\ batch.processed = Len(batch.events)
       /\ batch.processed = batch.successful + batch.failed
       /\ batch.successful = batch.rows
       /\ Len(batch.reported) <= 5

\* the requests that the step completes with success for the slug
SucceedsFor(slug) ==
  {k \in DOMAIN blogReqs :
     /\ blogReqs[k].pc # "done"
     /\ blogReqs'[k].pc = "done"
     /\ blogReqs'[k].status = 200
     /\ blogReqs'[k].slug = slug}

\* C28: every step raises the view_count of a published post by the number
\* of requests for it that the step completes with success, also while
\* other requests for the post are in progress; no request for an absent or
\* unpublished post succeeds, and no step changes the view_count of such a
\* post
C28_ViewCountExact ==
  [][/\ viewCount'[1] = viewCount[1] + Cardinality(SucceedsFor("post-a"))
     /\ viewCount'[2] = viewCount[2]
     /\ SucceedsFor("post-b") = {}
     /\ SucceedsFor("post-c") = {}]_vars

\* C28 witness: two requests for the published post, in progress at the same
\* time, both succeeded and its view_count is 2
C28_Witness ==
  /\ blogReqs[1].pc = "done" /\ blogReqs[1].status = 200
  /\ blogReqs[2].pc = "done" /\ blogReqs[2].status = 200
  /\ blogReqs[1].view_count = 0
  /\ blogReqs[2].view_count = 0
  /\ viewCount[1] = 2

\* the content_jobs rows of the run for the movie
JobsOf(movie) == {k \in 1..Len(cron.jobs) : cron.jobs[k].movie = movie}

\* C30: a run without the CF-Cron header is answered 401 and inserts
\* nothing; a run whose response carries the counts has selected at most
\* three movies, generated_count + error_count is their number,
\* generated_count is the number of blog posts the run inserted, and every
\* movie has exactly one content_jobs row, 'completed' exactly when its blog
\* post was inserted
C30_CronAccounting ==
  /\ (cron.pc # "idle" /\ ~cron.header) =>
       /\ cron.pc = "done"
       /\ cron.status = 401
       /\ cron.posts = {}
       /\ cron.jobs = <<>>
  /\ (cron.pc = "done" /\ cron.status = 200) =>
       /\ Len(cron.movies) <= 3
       /\ cron.generated_count + cron.error_count = Len(cron.movies)
       /\ cron.generated_count = Cardinality(cron.posts)
       /\ \A k \in 1..Len(cron.movies) :
            /\ Cardinality(JobsOf(cron.movies[k])) = 1
            /\ \A j \in JobsOf(cron.movies[k]) :
                 cron.jobs[j].status = "completed"
                   <=> cron.movies[k] \in cron.posts

====
